---- MODULE Spec2Model ----
(***************************************************************************)
(* Model of src/app.py: the upload-progress request class CustomRequest    *)
(* and the per-file stream CustomTemporaryFile.                            *)
(*                                                                         *)
(* One step of the model is one call made on these objects by their        *)
(* caller (the form parser, the route handler, the request context): the   *)
(* construction of a request, _get_file_stream, a write or a close of a    *)
(* stream, and CustomRequest.close.  A call that raises leaves the         *)
(* exception in raised; what the call changed before it raised is kept.    *)
(*                                                                         *)
(* The temporary file behind a stream is the io object returned by         *)
(* tempfile.TemporaryFile('wb+'): write returns the number of bytes it     *)
(* took or raises; close raises at most once, and the file is closed       *)
(* afterwards either way; a write to a closed file raises ValueError and a *)
(* close of a closed file returns.  Request.close of the base class closes *)
(* every stream held in request.files and swallows what a stream's close   *)
(* raises.                                                                 *)
(***************************************************************************)
EXTENDS Integers, Sequences, FiniteSets, Bags, TLC

(* ------------------------------ bounds --------------------------------- *)
\* streams one request may open
MaxSinks == 2
\* largest chunk handed to one write
MaxChunk == 2
\* cap on the uploaded_bytes of one entry
MaxBytes == 2

(* ------------------------------ universe ------------------------------- *)
Requests == {1, 2}
\* the requests the single-request specifications run
SpecRequests == {1}
Filenames == {"a.txt", "b.txt"}
Methods == {"GET", "POST"}
\* Content-Length header: missing, not an integer, or the integer 5
Headers == {"absent", "junk", "5"}
\* the Content-Length header the single-request specifications send
SpecHeaders == {"5"}
NoFile == "None"
NotBuilt == "none"

VARIABLES
    method,          \* method[r]: the request's method, NotBuilt before __init__
    upload_request,  \* upload_request[r]: self.upload_request
    closed,          \* closed[r]: self.closed
    content_length,  \* content_length[r]: self.content_length as __init__ sets it
    previous_file,   \* previous_file[r]: self.previous_file
    progress,        \* progress[r][f]: self.progress, entry f present or not
    sinks,           \* sinks[r]: the CustomTemporaryFile objects made so far, a bag
                     \* of their states (in_files: held in request.files)
    finished,        \* finished[r]: number of 'Upload finished' lines printed
    raised,          \* what the last call raised to its caller (history)
    closers,         \* closers[c]: where caller c stands inside CustomRequest.close
    filesize         \* the argument of one human_readable_filesize call and
                     \* what the call gave

vars == <<method, upload_request, closed, content_length, previous_file,
          progress, sinks, finished, raised, closers, filesize>>

(* ------------------------------ values --------------------------------- *)
NoEntry == [present |-> FALSE, uploaded_bytes |-> 0, complete |-> FALSE]

\* the dictionary literal of _get_file_stream
NewEntry == [present |-> TRUE, uploaded_bytes |-> 0, complete |-> FALSE]

EmptyProgress == [f \in Filenames |-> NoEntry]

\* what a call leaves in raised: nothing, or the exception with the method and
\* the request that raised it
NoError == [exc |-> "none", by |-> "none", req |-> 0]

Raised(op, r, exc) ==
    IF exc = "none" THEN NoError ELSE [exc |-> exc, by |-> op, req |-> r]

\* int(self.headers['Content-Length']) under try/except
ParseContentLength(hdr) ==
    IF hdr = "5" THEN 5 ELSE 0

\* the two paths that call CustomRequest.close on one request: the end of the
\* body and the abort of the request
Callers == {"normal", "abort"}

\* what a human_readable_filesize call gives: the string '<tenths/10> <unit>'
\* or an exception; "pending" before the call
Pending == [exc |-> "pending", tenths |-> 0, unit |-> "none"]

\* no call of human_readable_filesize is under way
NoCall == [b |-> [m |-> 0, e |-> 0], out |-> Pending]

\* no request has been constructed, nobody is inside close
NoRequests ==
    /\ method = [r \in Requests |-> NotBuilt]
    /\ upload_request = [r \in Requests |-> FALSE]
    /\ closed = [r \in Requests |-> FALSE]
    /\ content_length = [r \in Requests |-> 0]
    /\ previous_file = [r \in Requests |-> NoFile]
    /\ progress = [r \in Requests |-> EmptyProgress]
    /\ sinks = [r \in Requests |-> EmptyBag]
    /\ finished = [r \in Requests |-> 0]
    /\ raised = NoError
    /\ closers = [c \in Callers |-> "idle"]

Init ==
    /\ NoRequests
    /\ filesize = NoCall

(* ------------------------- bags of streams ----------------------------- *)
One(x) == SetToBag({x})

\* the bag B with one copy of old replaced by new
Replace(B, old, new) == (B (-) One(old)) (+) One(new)

RECURSIVE Copies(_, _)
\* the number of copies in B of the elements of the set S
Copies(S, B) ==
    IF S = {} THEN 0
    ELSE LET x == CHOOSE y \in S : TRUE IN B[x] + Copies(S \ {x}, B)

(* ------------------------- CustomRequest ------------------------------- *)
Built(r) == method[r] # NotBuilt

\* __init__ without the try/except around int(self.headers['Content-Length'])
InitRaisedNoExcept(hdr) ==
    IF hdr = "absent" THEN "KeyError"
    ELSE IF hdr = "junk" THEN "ValueError"
    ELSE "none"

\* what __init__ raises: the bare except takes whatever the header lookup and
\* int() raise
InitRaised(hdr) == "none"

\* CustomRequest.__init__
Construct(r, m, hdr) ==
    /\ ~Built(r)
    /\ method' = [method EXCEPT ![r] = m]
    /\ closed' = [closed EXCEPT ![r] = FALSE]
    /\ upload_request' = [upload_request EXCEPT ![r] = (m = "POST")]
    /\ progress' = [progress EXCEPT ![r] = EmptyProgress]
    /\ content_length' = [content_length EXCEPT
                            ![r] = IF m = "POST" THEN ParseContentLength(hdr) ELSE 0]
    /\ previous_file' = [previous_file EXCEPT ![r] = NoFile]
    /\ raised' = Raised("__init__", r, IF m = "POST" THEN InitRaised(hdr) ELSE "none")
    /\ UNCHANGED <<sinks, finished>>
    /\ UNCHANGED <<closers, filesize>>

\* CustomTemporaryFile.__init__: the stream and its open temporary file
NewSink(f) ==
    [onionshare_filename |-> f, f |-> "open", closeOK |-> FALSE, in_files |-> FALSE]

\* self.progress[filename] = {...} of _get_file_stream
TableAfterGetFileStream(table, f) ==
    [table EXCEPT ![f] = NewEntry]

\* CustomRequest._get_file_stream
GetFileStream(r, f) ==
    /\ Built(r)
    /\ BagCardinality(sinks[r]) < MaxSinks
    /\ progress' = [progress EXCEPT
                      ![r] = IF upload_request[r]
                             THEN TableAfterGetFileStream(@, f)
                             ELSE @]
    /\ sinks' = [sinks EXCEPT ![r] = @ (+) One(NewSink(f))]
    /\ raised' = NoError
    /\ UNCHANGED <<method, upload_request, closed, content_length, previous_file,
                   finished>>
    /\ UNCHANGED <<closers, filesize>>

\* request.files of upload_file: the parser has reached the end of the part
\* (container.seek(0)) and the stream is kept in request.files
RegisterFile(r, sink) ==
    /\ Built(r)
    /\ BagIn(sink, sinks[r])
    /\ ~sink.in_files
    /\ sink.f = "open"
    /\ sinks' = [sinks EXCEPT ![r] = Replace(@, sink, [sink EXCEPT !.in_files = TRUE])]
    /\ raised' = NoError
    /\ UNCHANGED <<method, upload_request, closed, content_length, previous_file,
                   progress, finished>>
    /\ UNCHANGED <<closers, filesize>>

\* what file_write_func raises: self.progress[filename] of a missing key
FileWriteRaised(r, f) ==
    IF ~closed[r] /\ upload_request[r] /\ ~progress[r][f].present
    THEN "KeyError" ELSE "none"

\* self.progress[filename]['uploaded_bytes'] += length
EntryAfterWrite(entry, length) ==
    [entry EXCEPT !.uploaded_bytes = @ + length]

\* file_write_func on a table that is one object for all requests (progress a
\* class attribute instead of the instance attribute __init__ makes)
FileWriteFuncShared(r, f, length) ==
    IF closed[r] \/ ~upload_request[r] \/ ~progress[r][f].present
    THEN UNCHANGED <<progress, previous_file>>
    ELSE /\ progress' = [q \in Requests |->
                           IF progress[q][f].present
                           THEN [progress[q] EXCEPT ![f] = EntryAfterWrite(@, length)]
                           ELSE progress[q]]
         /\ previous_file' = [previous_file EXCEPT ![r] = f]

\* CustomRequest.file_write_func: the progress table and previous_file after it
FileWriteFunc(r, f, length) ==
    IF closed[r] \/ ~upload_request[r] \/ ~progress[r][f].present
    THEN UNCHANGED <<progress, previous_file>>
    ELSE /\ progress' = [progress EXCEPT ![r][f] = EntryAfterWrite(@, length)]
         /\ previous_file' = [previous_file EXCEPT ![r] = f]

\* what file_close_func raises: no progress attribute, or a missing key
FileCloseRaised(r, f) ==
    IF ~upload_request[r] THEN "AttributeError"
    ELSE IF ~progress[r][f].present THEN "KeyError"
    ELSE "none"

\* self.progress[filename]['complete'] = True
EntryAfterClose(entry) ==
    [entry EXCEPT !.complete = TRUE]

\* file_close_func that marks every entry of the table, not only the one of
\* its filename
TableAfterCloseAll(r, table, done) ==
    IF ~upload_request[r] \/ done = {} THEN table
    ELSE [f \in Filenames |->
            IF table[f].present THEN EntryAfterClose(table[f]) ELSE table[f]]

\* CustomRequest.file_close_func on a table, for the names in done
TableAfterClose(r, table, done) ==
    IF ~upload_request[r] THEN table
    ELSE [f \in Filenames |->
            IF f \in done /\ table[f].present THEN EntryAfterClose(table[f])
            ELSE table[f]]

(* ----------------------- CustomTemporaryFile --------------------------- *)
\* what self.f.write(b) raises
FWriteRaised(sink, ok) ==
    IF sink.f = "closed" THEN "ValueError"
    ELSE IF ~ok THEN "IOFailure"
    ELSE "none"

\* the length of the chunk reported instead of what the file took
BytesReportedChunk(n, k) == n

\* bytes_written, what write hands to onionshare_write_func: the bytes the
\* temporary file took (k) of the chunk's n
BytesReported(n, k) == k

\* CustomTemporaryFile.write of a chunk of n bytes; the temporary file takes
\* k of them when ok, and raises otherwise
SinkWrite(r, sink, n, k, ok) ==
    /\ Built(r)
    /\ BagIn(sink, sinks[r])
    /\ n \in 1..MaxChunk
    /\ k \in 0..n
    /\ LET f == sink.onionshare_filename
           raisedF == FWriteRaised(sink, ok)
       IN  IF raisedF # "none"
           THEN /\ k = 0
                /\ sink.f = "closed" => ok
                /\ raised' = Raised("write", r, raisedF)
                /\ UNCHANGED <<progress, previous_file>>
           ELSE /\ progress[r][f].uploaded_bytes + k <= MaxBytes
                /\ FileWriteFunc(r, f, BytesReported(n, k))
                /\ raised' = Raised("write", r, FileWriteRaised(r, f))
    /\ UNCHANGED <<method, upload_request, closed, content_length, sinks, finished>>
    /\ UNCHANGED <<closers, filesize>>

\* self.f.close(): the file is closed afterwards whether or not it raised
SinkAfterFClose(sink, ok) ==
    [sink EXCEPT !.f = "closed", !.closeOK = @ \/ ok]

\* completion reported whether or not self.f.close() returned
CloseReportsAlways(ok) == TRUE

\* whether close reaches onionshare_close_func: only when self.f.close() returned
CloseReports(ok) == ok

\* CustomTemporaryFile.close; ok is whether self.f.close() returns
SinkClose(r, sink, ok) ==
    /\ Built(r)
    /\ BagIn(sink, sinks[r])
    /\ sink.f = "closed" => ok
    /\ LET f == sink.onionshare_filename
       IN  /\ sinks' = [sinks EXCEPT ![r] = Replace(@, sink, SinkAfterFClose(sink, ok))]
           /\ IF CloseReports(ok)
              THEN /\ progress' = [progress EXCEPT ![r] = TableAfterClose(r, @, {f})]
                   /\ raised' = Raised("close", r, FileCloseRaised(r, f))
              ELSE /\ UNCHANGED progress
                   /\ raised' = Raised("close", r, "IOFailure")
    /\ UNCHANGED <<method, upload_request, closed, content_length, previous_file,
                   finished>>
    /\ UNCHANGED <<closers, filesize>>

(* ----------------------- CustomRequest.close --------------------------- *)
\* the streams of r held in request.files
InFiles(r) == [x \in {y \in BagToSet(sinks[r]) : y.in_files} |-> sinks[r][x]]

\* the streams of r that are not in request.files
NotInFiles(r) == [x \in {y \in BagToSet(sinks[r]) : ~y.in_files} |-> sinks[r][x]]

\* the streams of request.files whose temporary file is still open
OpenFiles(r) ==
    [x \in {y \in BagToSet(sinks[r]) : y.in_files /\ y.f = "open"} |-> sinks[r][x]]

\* the streams in B after self.f.close() of each
AfterFClose(B, ok) ==
    LET S == BagToSet(B)
    IN  [y \in {SinkAfterFClose(x, ok) : x \in S} |->
            Copies({x \in S : SinkAfterFClose(x, ok) = y}, B)]

\* super().close(): every stream of request.files is closed; failing are the
\* streams whose self.f.close() raises, which the base class swallows
SinksAfterSuperClose(r, failing) ==
    NotInFiles(r)
        (+) AfterFClose(InFiles(r) (-) failing, TRUE)
        (+) AfterFClose(failing, FALSE)

\* the names whose file_close_func runs under super().close()
NamesClosedBySuper(r, failing) ==
    {x.onionshare_filename : x \in BagToSet(InFiles(r) (-) failing)}
        \cup {x.onionshare_filename : x \in {y \in BagToSet(failing) : CloseReports(FALSE)}}

\* self.closed after CustomRequest.close
ClosedAfterClose(was) == TRUE

\* close without its "if self.closed: return"
FinishedAfterCloseUnguarded(was, n) == n + 1

\* the 'Upload finished' lines after CustomRequest.close
FinishedAfterClose(was, n) == IF was THEN n ELSE n + 1

\* CustomRequest.close
RequestClose(r, failing) ==
    /\ Built(r)
    /\ failing \in SubBag(OpenFiles(r))
    /\ sinks' = [sinks EXCEPT ![r] = SinksAfterSuperClose(r, failing)]
    /\ progress' = [progress EXCEPT
                      ![r] = TableAfterClose(r, @, NamesClosedBySuper(r, failing))]
    /\ closed' = [closed EXCEPT ![r] = ClosedAfterClose(@)]
    /\ finished' = [finished EXCEPT ![r] = FinishedAfterClose(closed[r], @)]
    /\ raised' = NoError
    /\ UNCHANGED <<method, upload_request, content_length, previous_file>>
    /\ UNCHANGED <<closers, filesize>>

(* --------------------------- specifications ---------------------------- *)
DoConstruct == \E r \in SpecRequests, m \in Methods, hdr \in SpecHeaders : Construct(r, m, hdr)
DoGetFileStream == \E r \in SpecRequests, f \in Filenames : GetFileStream(r, f)
DoRegisterFile == \E r \in SpecRequests : \E sink \in BagToSet(sinks[r]) : RegisterFile(r, sink)
DoSinkWrite ==
    \E r \in SpecRequests, n \in 1..MaxChunk, k \in 0..MaxChunk, ok \in BOOLEAN :
        \E sink \in BagToSet(sinks[r]) : SinkWrite(r, sink, n, k, ok)
DoSinkClose ==
    \E r \in SpecRequests, ok \in BOOLEAN :
        \E sink \in BagToSet(sinks[r]) : SinkClose(r, sink, ok)
DoRequestClose ==
    \E r \in SpecRequests : \E failing \in SubBag(OpenFiles(r)) : RequestClose(r, failing)

Next ==
    \/ DoConstruct
    \/ DoGetFileStream
    \/ DoRegisterFile
    \/ DoSinkWrite
    \/ DoSinkClose
    \/ DoRequestClose

Spec == Init /\ [][Next]_vars

\* file_write_func called with any file name and length, as the write callback
\* a stream is given
ReportWrite(r, f, length) ==
    /\ Built(r)
    /\ progress[r][f].uploaded_bytes + length <= MaxBytes
    /\ FileWriteFunc(r, f, length)
    /\ raised' = Raised("file_write_func", r, FileWriteRaised(r, f))
    /\ UNCHANGED <<method, upload_request, closed, content_length, sinks, finished>>
    /\ UNCHANGED <<closers, filesize>>

\* file_close_func called with any file name, as the close callback a stream
\* is given
ReportClose(r, f) ==
    /\ Built(r)
    /\ progress' = [progress EXCEPT
                      ![r] = IF FileCloseRaised(r, f) = "none"
                             THEN TableAfterClose(r, @, {f})
                             ELSE @]
    /\ raised' = Raised("file_close_func", r, FileCloseRaised(r, f))
    /\ UNCHANGED <<method, upload_request, closed, content_length, previous_file,
                   sinks, finished>>
    /\ UNCHANGED <<closers, filesize>>

DoReportWrite ==
    \E r \in SpecRequests, f \in Filenames, length \in 0..MaxChunk : ReportWrite(r, f, length)
DoReportClose == \E r \in SpecRequests, f \in Filenames : ReportClose(r, f)

ReporterNext ==
    \/ Next
    \/ DoReportWrite
    \/ DoReportClose

\* the requests' callbacks are also called directly, with any file name
ReporterSpec == Init /\ [][ReporterNext]_vars

DoConstructAnyHeader ==
    \E r \in SpecRequests, m \in Methods, hdr \in Headers : Construct(r, m, hdr)

HeaderNext ==
    \/ DoConstructAnyHeader
    \/ DoGetFileStream
    \/ DoSinkWrite
    \/ DoSinkClose
    \/ DoRequestClose

\* the single request comes with any Content-Length header
HeaderSpec == Init /\ [][HeaderNext]_vars

(* --------------------------- two requests ------------------------------ *)
\* Two upload requests at once, both sending a file of the same name; every
\* step is one call on one of them.
SameName == "a.txt"

PairConstruct == \E r \in Requests : Construct(r, "POST", "5")

PairGetFileStream == \E r \in Requests : GetFileStream(r, SameName)

PairSinkWrite ==
    \E r \in Requests, n \in 1..MaxChunk, k \in 0..MaxChunk :
        \E sink \in BagToSet(sinks[r]) : SinkWrite(r, sink, n, k, TRUE)

PairSinkClose ==
    \E r \in Requests : \E sink \in BagToSet(sinks[r]) : SinkClose(r, sink, TRUE)

PairRequestClose == \E r \in Requests : RequestClose(r, EmptyBag)

PairNext ==
    \/ PairConstruct
    \/ PairGetFileStream
    \/ PairSinkWrite
    \/ PairSinkClose
    \/ PairRequestClose

PairSpec == Init /\ [][PairNext]_vars

(* ------------------- close, statement by statement --------------------- *)
\* Two callers run CustomRequest.close on the same request and may be
\* switched between any two statements of it; close takes no lock.
\* closers[c] is the statement caller c executes next.

\* line 108: super().close()
CloseSuper(c, r) ==
    /\ Built(r) /\ closers[c] = "idle"
    /\ closers' = [closers EXCEPT ![c] = "guard"]
    /\ sinks' = [sinks EXCEPT ![r] = SinksAfterSuperClose(r, EmptyBag)]
    /\ progress' = [progress EXCEPT
                      ![r] = TableAfterClose(r, @, NamesClosedBySuper(r, EmptyBag))]
    /\ raised' = NoError
    /\ UNCHANGED <<method, upload_request, closed, content_length, previous_file,
                   finished, filesize>>

\* lines 111-112: if self.closed: return
CloseGuard(c, r) ==
    /\ closers[c] = "guard"
    /\ closers' = [closers EXCEPT ![c] = IF closed[r] THEN "returned" ELSE "set"]
    /\ UNCHANGED <<method, upload_request, closed, content_length, previous_file,
                   progress, sinks, finished, raised, filesize>>

\* line 113: self.closed = True
CloseSet(c, r) ==
    /\ closers[c] = "set"
    /\ closers' = [closers EXCEPT ![c] = "print"]
    /\ closed' = [closed EXCEPT ![r] = TRUE]
    /\ UNCHANGED <<method, upload_request, content_length, previous_file,
                   progress, sinks, finished, raised, filesize>>

\* line 115: print('Upload finished')
ClosePrint(c, r) ==
    /\ closers[c] = "print"
    /\ closers' = [closers EXCEPT ![c] = "returned"]
    /\ finished' = [finished EXCEPT ![r] = @ + 1]
    /\ UNCHANGED <<method, upload_request, closed, content_length, previous_file,
                   progress, sinks, raised, filesize>>

DoCloseSuper == \E c \in Callers, r \in SpecRequests : CloseSuper(c, r)
DoCloseGuard == \E c \in Callers, r \in SpecRequests : CloseGuard(c, r)
DoCloseSet == \E c \in Callers, r \in SpecRequests : CloseSet(c, r)
DoClosePrint == \E c \in Callers, r \in SpecRequests : ClosePrint(c, r)

\* the body is received call by call and then both paths close the request
RaceNext ==
    \/ DoConstruct
    \/ DoGetFileStream
    \/ DoRegisterFile
    \/ DoSinkWrite
    \/ DoCloseSuper
    \/ DoCloseGuard
    \/ DoCloseSet
    \/ DoClosePrint

RaceSpec == Init /\ [][RaceNext]_vars

(* ---------------------- human_readable_filesize ------------------------ *)
\* A byte count is written [m, e] and stands for m * thresh^e, so that counts
\* up to thresh^10 fit the integers of the model checker. m stays below
\* thresh^2 = 2^20, so the float the code makes of it and every division by
\* thresh (a power of two) are exact.
MaxExp == 8          \* largest e of an argument

thresh == 1024

units == <<"KiB", "MiB", "GiB", "TiB", "PiB", "EiB", "ZiB", "YiB">>

Mantissas == {0, 1, 512, 1023, 1024, 1280, 1536, 1048575}

FilesizeArguments == [m : Mantissas, e : 0..MaxExp]

RECURSIVE Pow(_, _)
Pow(x, n) == IF n = 0 THEN 1 ELSE x * Pow(x, n - 1)

\* b < thresh
BelowThresh(b) ==
    IF b.m = 0 THEN TRUE
    ELSE IF b.e >= 1 THEN FALSE
    ELSE b.m < Pow(thresh, 1 - b.e)

\* b /= thresh
DivThresh(b) == [b EXCEPT !.e = @ - 1]

\* the while loop: the value and the index it ends with
RECURSIVE WhileLoop(_, _)
WhileLoop(b, u) ==
    IF BelowThresh(b) THEN [b |-> b, u |-> u] ELSE WhileLoop(DivThresh(b), u + 1)

\* num / den rounded to the nearest integer, halves to the even one
RoundHalfEven(num, den) ==
    LET q == num \div den
        twice == 2 * (num % den)
    IN  IF twice < den THEN q
        ELSE IF twice > den THEN q + 1
        ELSE IF q % 2 = 0 THEN q ELSE q + 1

\* '{:.1f}'.format(b), in tenths; b is below thresh here
Format1f(b) ==
    IF b.m = 0 THEN 0
    ELSE IF b.e >= 0 THEN 10 * b.m * Pow(thresh, b.e)
    ELSE RoundHalfEven(10 * b.m, Pow(thresh, 0 - b.e))

human_readable_filesize(b) ==
    IF BelowThresh(b)
    THEN [exc |-> "none", tenths |-> Format1f(b), unit |-> "B"]
    ELSE LET end == WhileLoop(DivThresh(b), 0)
         IN  IF end.u + 1 > Len(units)
             THEN [exc |-> "IndexError", tenths |-> 0, unit |-> "none"]
             ELSE [exc |-> "none", tenths |-> Format1f(end.b), unit |-> units[end.u + 1]]

\* one call of the function on the argument chosen at the start
CallHumanReadableFilesize ==
    /\ filesize.out = Pending
    /\ filesize' = [filesize EXCEPT !.out = human_readable_filesize(filesize.b)]
    /\ UNCHANGED <<method, upload_request, closed, content_length, previous_file,
                   progress, sinks, finished, raised, closers>>

FilesizeInit ==
    /\ NoRequests
    /\ filesize \in [b : FilesizeArguments, out : {Pending}]

FilesizeNext == CallHumanReadableFilesize

FilesizeSpec == FilesizeInit /\ [][FilesizeNext]_vars

\* the request context calls CustomRequest.close when the request ends,
\* whatever the handler did: a call that stays possible is made
FairSpec ==
    /\ Spec
    /\ \A r \in SpecRequests :
          WF_vars(\E failing \in SubBag(OpenFiles(r)) : RequestClose(r, failing))

(* ------------------------------- claims -------------------------------- *)
Uploaded(r, f) == progress[r][f].uploaded_bytes
Complete(r, f) == progress[r][f].complete

\* a step that is a call of CustomRequest.close on r
RequestCloseStep(r) == \E failing \in SubBag(OpenFiles(r)) : RequestClose(r, failing)

\* C1: while an upload request is not finalized, uploaded_bytes of a file name
\* is the sum of the deltas written to it so far, after every write: a write
\* that takes k bytes adds k, and no other step changes it.
C1_PrefixSums ==
    [][\A r \in SpecRequests, f \in Filenames :
        (upload_request[r] /\ ~closed[r]) =>
            /\ \A sink \in BagToSet(sinks[r]), n \in 1..MaxChunk, k \in 0..MaxChunk :
                (sink.onionshare_filename = f /\ SinkWrite(r, sink, n, k, TRUE))
                    => Uploaded(r, f)' = Uploaded(r, f) + k
            /\ (~\E sink \in BagToSet(sinks[r]), n \in 1..MaxChunk, k \in 0..MaxChunk :
                    sink.onionshare_filename = f /\ SinkWrite(r, sink, n, k, TRUE))
                    => Uploaded(r, f)' = Uploaded(r, f)]_vars

\* C2: uploaded_bytes of a file name never decreases, whatever the step.
C2_BytesNeverDecrease ==
    [][\A r \in SpecRequests, f \in Filenames :
        upload_request[r] => Uploaded(r, f)' >= Uploaded(r, f)]_vars

\* C3: once complete is true for a file name it stays true (so it goes from
\* false to true at most once).
C3_CompleteNeverReverts ==
    [][\A r \in SpecRequests, f \in Filenames :
        (upload_request[r] /\ Complete(r, f)) => Complete(r, f)']_vars

\* C4: file_close_func for a file name with no entry raises nothing and leaves
\* the table as it is.
C4_CloseUnknownIsNoOp ==
    [][\A r \in SpecRequests, f \in Filenames :
        (upload_request[r] /\ ~progress[r][f].present /\ ReportClose(r, f))
            => (raised' = NoError /\ progress' = progress)]_vars

\* a call of CustomRequest.close in this state would leave closed, the table
\* and the 'Upload finished' count as they are
CloseChangesNothing(r) ==
    /\ closed[r]
    /\ ClosedAfterClose(closed[r]) = closed[r]
    /\ FinishedAfterClose(closed[r], finished[r]) = finished[r]
    /\ \A failing \in SubBag(OpenFiles(r)) :
          TableAfterClose(r, progress[r], NamesClosedBySuper(r, failing)) = progress[r]

\* C5: CustomRequest.close is idempotent: in the state a call of it leaves, a
\* second call changes neither closed, nor any entry, nor what was printed.
C5_FinalizeIdempotent ==
    [][\A r \in SpecRequests : RequestCloseStep(r) => CloseChangesNothing(r)']_vars

C7_ImmutableAfterFinalize ==
    [][\A r \in SpecRequests :
        (upload_request[r] /\ closed[r]) => progress'[r] = progress[r]]_vars

\* C8: on a request not yet finalized, a write whose temporary file takes k
\* bytes of the chunk raises nothing and adds exactly k to the entry's
\* uploaded_bytes, whatever the chunk's length; a write whose temporary file
\* raises hands the failure to the caller and leaves the table as it is.
C8_WriteReportsAccepted ==
    [][\A r \in SpecRequests :
        (upload_request[r] /\ ~closed[r]) =>
            \A sink \in BagToSet(sinks[r]), n \in 1..MaxChunk :
                /\ \A k \in 0..n :
                    (sink.f = "open" /\ SinkWrite(r, sink, n, k, TRUE)) =>
                        /\ raised' = NoError
                        /\ progress'[r] =
                             [progress[r] EXCEPT ![sink.onionshare_filename].uploaded_bytes = @ + k]
                /\ (sink.f = "open" /\ SinkWrite(r, sink, n, 0, FALSE)) =>
                        /\ raised' = Raised("write", r, "IOFailure")
                        /\ progress' = progress
                /\ (sink.f = "closed" /\ SinkWrite(r, sink, n, 0, TRUE)) =>
                        /\ raised' = Raised("write", r, "ValueError")
                        /\ progress' = progress]_vars

\* a write failed after an earlier chunk of the same file was taken: the entry
\* shows the earlier bytes and is not complete
C8_Witness ==
    \E r \in SpecRequests, f \in Filenames :
        /\ upload_request[r] /\ ~closed[r]
        /\ raised = Raised("write", r, "IOFailure")
        /\ Uploaded(r, f) > 0 /\ ~Complete(r, f)
        /\ \E sink \in BagToSet(sinks[r]) : sink.onionshare_filename = f /\ sink.f = "open"

\* C9: an entry is complete only if the close of the temporary file of a stream
\* of that name has returned; a close whose temporary file raises hands the
\* failure to the caller and leaves the table as it is.
C9_CompleteAfterSinkClosed ==
    /\ [](\A r \in SpecRequests, f \in Filenames :
            (upload_request[r] /\ Complete(r, f)) =>
                \E sink \in BagToSet(sinks[r]) :
                    sink.onionshare_filename = f /\ sink.closeOK)
    /\ [][\A r \in SpecRequests :
            \A sink \in BagToSet(sinks[r]) :
                (upload_request[r] /\ sink.f = "open" /\ SinkClose(r, sink, FALSE)) =>
                    /\ raised' = Raised("close", r, "IOFailure")
                    /\ progress' = progress]_vars

\* a stream's close failed and its entry is not complete, while another file's
\* stream was closed and its entry is complete
C9_Witness ==
    \E r \in SpecRequests, f \in Filenames, g \in Filenames :
        /\ upload_request[r]
        /\ raised = Raised("close", r, "IOFailure")
        /\ ~Complete(r, f) /\ progress[r][f].present
        /\ \E sink \in BagToSet(sinks[r]) :
              sink.onionshare_filename = f /\ sink.f = "closed" /\ ~sink.closeOK
        /\ Complete(r, g)

\* C10: when the request has been finalized, every stream it opened is closed.
C10_AllSinksClosedAtEnd ==
    \A r \in SpecRequests :
        closed[r] => \A sink \in BagToSet(sinks[r]) : sink.f = "closed"

\* C11: __init__ of an upload request whose Content-Length is missing or not an
\* integer raises nothing and sets content_length to 0; afterwards, whatever
\* content_length is, a part discovery makes the entry, a write that takes k
\* bytes adds k and a close that returns sets complete, and no such call
\* changes content_length.
C11_UnknownContentLength ==
    [][\A r \in SpecRequests :
        /\ \A hdr \in {"absent", "junk"} :
              \/ /\ raised' = NoError
                 /\ upload_request'[r]
                 /\ content_length'[r] = 0
                 /\ progress'[r] = EmptyProgress
              \/ ~Construct(r, "POST", hdr)
        /\ upload_request[r] =>
              /\ content_length'[r] = content_length[r]
              /\ \A f \in Filenames :
                    \/ (raised' = NoError /\ progress'[r][f] = NewEntry)
                    \/ ~GetFileStream(r, f)
              /\ \A sink \in BagToSet(sinks[r]), k \in 0..MaxChunk :
                    \/ /\ raised' = NoError
                       /\ Uploaded(r, sink.onionshare_filename)'
                            = Uploaded(r, sink.onionshare_filename) + k
                    \/ closed[r] \/ sink.f # "open"
                    \/ ~\E n \in 1..MaxChunk : SinkWrite(r, sink, n, k, TRUE)
              /\ \A sink \in BagToSet(sinks[r]) :
                    \/ (raised' = NoError /\ Complete(r, sink.onionshare_filename)')
                    \/ ~SinkClose(r, sink, TRUE)]_vars

\* an upload request whose content_length is 0 has a complete entry with bytes
C11_Witness ==
    \E r \in SpecRequests, f \in Filenames :
        /\ upload_request[r] /\ content_length[r] = 0
        /\ Uploaded(r, f) > 0 /\ Complete(r, f)

\* C12: on an open upload request, file_write_func for a filename that has no
\* entry raises nothing and leaves the entry {uploaded_bytes: length,
\* complete: False}, made from {0, False} plus the reported length.
C12_WriteUnknownCreates ==
    [][\A r \in SpecRequests, f \in Filenames, length \in 0..MaxChunk :
        (upload_request[r] /\ ~closed[r] /\ ~progress[r][f].present
            /\ ReportWrite(r, f, length))
            => /\ raised' = NoError
               /\ progress'[r][f] = EntryAfterWrite(NewEntry, length)]_vars

\* C13: when the first bytes of a file g are recorded on an upload request
\* whose previous bytes went to another file f, the entry of f is already
\* complete.
C13_CompleteBeforeNextFile ==
    [][\A r \in SpecRequests, f \in Filenames, g \in Filenames :
        (upload_request[r] /\ f # g /\ previous_file[r] = f
            /\ Uploaded(r, g) = 0 /\ Uploaded(r, g)' > 0)
            => Complete(r, f)]_vars

\* the unit names of the formatter, B first
AllUnits == <<"B">> \o units

\* how many times m can be divided by 1024 while staying >= 1
RECURSIVE TimesDivisible(_)
TimesDivisible(m) == IF m < thresh THEN 0 ELSE 1 + TimesDivisible(m \div thresh)

\* C14: for every byte count N the call returns a string; its unit is the one
\* of index k among B, KiB, ..., YiB, k being the number of times N can be
\* divided by 1024 while staying >= 1, and its value is N / 1024^k with one
\* decimal.
C14_FilesizeForEveryN ==
    filesize.out # Pending =>
        LET b == filesize.b
            k == IF b.m = 0 THEN 0 ELSE b.e + TimesDivisible(b.m)
        IN  /\ filesize.out.exc = "none"
            /\ k + 1 <= Len(AllUnits) =>
                  /\ filesize.out.unit = AllUnits[k + 1]
                  /\ filesize.out.tenths
                       = RoundHalfEven(10 * b.m, Pow(thresh, TimesDivisible(b.m)))

\* a write, a close of a stream or a close of the request, called on request r
EventOf(r) ==
    \/ \E sink \in BagToSet(sinks[r]), n \in 1..MaxChunk, k \in 0..MaxChunk :
          SinkWrite(r, sink, n, k, TRUE)
    \/ \E sink \in BagToSet(sinks[r]) : SinkClose(r, sink, TRUE)
    \/ RequestClose(r, EmptyBag)

\* C15: with two requests under way in any interleaving, a write, a close of a
\* stream or a close of one request leaves the other request's progress
\* table, its closed flag and its previous_file as they were, also when both
\* upload a file of the same name.
C15_RequestsIsolated ==
    [][\A r \in Requests, q \in Requests :
        (r # q /\ EventOf(r)) =>
            /\ progress'[q] = progress[q]
            /\ closed'[q] = closed[q]
            /\ previous_file'[q] = previous_file[q]]_vars

\* both requests hold an entry for the same name, with different byte counts,
\* one complete and closed, the other neither
C15_Witness ==
    \E r \in Requests, q \in Requests :
        /\ r # q
        /\ progress[r][SameName].present /\ progress[q][SameName].present
        /\ Uploaded(r, SameName) > Uploaded(q, SameName) /\ Uploaded(q, SameName) > 0
        /\ Complete(r, SameName) /\ ~Complete(q, SameName)
        /\ closed[r] /\ ~closed[q]

\* C16: when the end-of-body path and the abort path both run close on one
\* request, their statements interleaved in any way, 'Upload finished' is
\* printed at most once, and exactly once, with closed set, as soon as one of
\* them has returned.
C16_FinalizeOnceUnderRace ==
    \A r \in SpecRequests :
        /\ finished[r] <= 1
        /\ (\E c \in Callers : closers[c] = "returned") => closed[r]
        /\ (\A c \in Callers : closers[c] = "returned") => finished[r] = 1

\* a write to a stream of filename f or a close of one, on request r
WriteOrCloseOf(r, f) ==
    \/ \E sink \in BagToSet(sinks[r]), n \in 1..MaxChunk, k \in 0..MaxChunk, ok \in BOOLEAN :
          sink.onionshare_filename = f /\ SinkWrite(r, sink, n, k, ok)
    \/ \E sink \in BagToSet(sinks[r]), ok \in BOOLEAN :
          sink.onionshare_filename = f /\ SinkClose(r, sink, ok)

\* C17: a write or close event for filename f leaves the entry of every other
\* filename of the request, and the closed flag, as they were.
C17_OnlyOwnEntryChanges ==
    [][\A r \in SpecRequests, f \in Filenames :
        \/ /\ closed' = closed
           /\ \A g \in Filenames : g # f => progress'[r][g] = progress[r][g]
        \/ ~WriteOrCloseOf(r, f)]_vars

\* one file counted bytes and completed while the entry of the other, present
\* with bytes of its own, is incomplete and the request is open
C17_Witness ==
    \E r \in SpecRequests, f \in Filenames, g \in Filenames :
        /\ f # g /\ upload_request[r] /\ ~closed[r]
        /\ Complete(r, f) /\ Uploaded(r, f) = 2
        /\ progress[r][g].present /\ ~Complete(r, g) /\ Uploaded(r, g) = 1

\* a file-part event on request r whose temporary file does what it is asked:
\* a stream is made, an open stream is written to, a stream is closed, the
\* request is closed
FilePartEvent(r) ==
    \/ \E f \in Filenames : GetFileStream(r, f)
    \/ \E sink \in BagToSet(sinks[r]), n \in 1..MaxChunk, k \in 0..MaxChunk :
          sink.f = "open" /\ SinkWrite(r, sink, n, k, TRUE)
    \/ \E sink \in BagToSet(sinks[r]) : SinkClose(r, sink, TRUE)
    \/ RequestCloseStep(r)

\* C18: on a request that is not a POST, every file-part event returns without
\* raising and leaves the request without any progress entry.
C18_NonUploadEventsAreSafe ==
    [][\A r \in SpecRequests :
        (Built(r) /\ ~upload_request[r]) =>
            \/ (raised' = NoError /\ progress'[r] = EmptyProgress)
            \/ ~FilePartEvent(r)]_vars

\* C19: on an upload request, once the entry of a filename is complete its
\* uploaded_bytes is the same in every later state.
C19_NoBytesAfterComplete ==
    [][\A r \in SpecRequests, f \in Filenames :
        (upload_request[r] /\ Complete(r, f)) => Uploaded(r, f)' = Uploaded(r, f)]_vars

====
